---- MODULE Spec2Model ----
(***************************************************************************)
(* Model of mrrc/s3client.py (class S3Client): the upload / metadata       *)
(* upload / delete protocol that keeps the "rh-products" owner list and    *)
(* the "checksum" of the objects of one S3 bucket.                         *)
(*                                                                         *)
(* Python strings are modelled as sequences of one-character strings, so   *)
(* that str.split(","), ",".join(...), str.startswith and slicing are      *)
(* computed and not assumed.  A metadata dict is a function whose domain   *)
(* is the set of keys present.  The bucket is a function from the keys     *)
(* that hold an object to [body, meta].                                    *)
(*                                                                         *)
(* Every handler makes one HEAD request (fileObject.load, which also       *)
(* caches fileObject.metadata) and later at most one mutating request      *)
(* (put / upload_file / copy_from / delete_objects).  Each handler run is  *)
(* therefore two steps, the probe and the write.  Spec is the client used  *)
(* by one caller, whose runs never overlap; SpecRacing is the client used  *)
(* by two callers whose steps interleave; SpecKeys is the key derivation   *)
(* of __do_path_cut_and on its own.  The calls are made with an            *)
(* explicit bucket_name; transport failures of the store other than        *)
(* "no such key" are not modelled.                                         *)
(***************************************************************************)
EXTENDS Integers, Sequences, FiniteSets, TLC

VARIABLES
    store,      \* the bucket: key -> [body, meta], defined on the keys that exist
    call,       \* per caller: the running upload_files/upload_metadatas/delete_files call
    item,       \* per caller: the handler invocation in flight (after its probe)
    last,       \* history: the handler invocation that finished last (found: the
                \* product list it read; repeat: it repeats the one before it)
    claimed,    \* history: per key, the products uploaded and not released since
    nitems,     \* number of items handed to the calls started so far
    derivation  \* the key derivation made last, when key derivation is looked at alone

vars == <<store, call, item, last, claimed, nitems, derivation>>

-----------------------------------------------------------------------------
(* Bounds of the exploration *)

\* handler invocations (items of all batches together) a behaviour may hold
MaxItems == 3

\* length of the roots and of the paths whose key is derived
MaxKeyLen == 4

-----------------------------------------------------------------------------
(* Program constants and input domains *)

PRODUCT_META_KEY == "rh-products"

CHECKSUM_META_KEY == "checksum"

\* Python None as a product argument: a token that is no string
None == <<"None">>

Callers == {"c1", "c2"}

Products == {<<"A">>, <<"B">>, <<"C">>}

ProductArgs == Products \cup {None}

Roots == {<<"/", "r">>, <<"/", "r", "/">>}

Paths == {<<"/", "r", "/", "a">>, <<"b">>}

\* contents a local file can have; "b0" is a file whose sha1 reads as empty
LocalFiles == {"b0", "b1", "b2"}

\* os.path.isfile(full_file_path) is False
Missing == "missing"

Whitespace == {" ", "\t", "\n"}

-----------------------------------------------------------------------------
(* Python string and list primitives *)

StartsWith(s, prefix) ==
    /\ Len(prefix) <= Len(s)
    /\ SubSeq(s, 1, Len(prefix)) = prefix

EndsWith(s, suffix) ==
    /\ Len(suffix) <= Len(s)
    /\ SubSeq(s, Len(s) - Len(suffix) + 1, Len(s)) = suffix

RECURSIVE LStrip(_)
LStrip(s) ==
    IF s # <<>> /\ Head(s) \in Whitespace THEN LStrip(Tail(s)) ELSE s

RECURSIVE RStrip(_)
RStrip(s) ==
    IF s # <<>> /\ s[Len(s)] \in Whitespace
    THEN RStrip(SubSeq(s, 1, Len(s) - 1))
    ELSE s

\* str.strip()
Strip(s) == RStrip(LStrip(s))

\* s.split(","): "" gives [""], "A,B" gives ["A", "B"]
RECURSIVE SplitComma(_)
SplitComma(s) ==
    IF \E i \in 1..Len(s) : s[i] = ","
    THEN LET i == CHOOSE j \in 1..Len(s) :
                      /\ s[j] = ","
                      /\ \A h \in 1..(j - 1) : s[h] # ","
         IN  <<SubSeq(s, 1, i - 1)>> \o SplitComma(SubSeq(s, i + 1, Len(s)))
    ELSE <<s>>

\* ",".join(prods), for a list of strings
RECURSIVE JoinComma(_)
JoinComma(prods) ==
    IF prods = <<>> THEN <<>>
    ELSE IF Len(prods) = 1 THEN prods[1]
    ELSE prods[1] \o <<",">> \o JoinComma(Tail(prods))

\* ",".join(prods) raises TypeError when an element is not a string
JoinRaises(prods) == \E i \in 1..Len(prods) : prods[i] = None

\* a lookup that stops at the first element
InListFirst(x, l) == l # <<>> /\ l[1] = x

\* x in l
InList(x, l) == \E i \in 1..Len(l) : l[i] = x

\* an insertion at the front
ListPrepend(l, x) == <<x>> \o l

\* l.append(x)
ListAppend(l, x) == Append(l, x)

\* a removal that drops the last element, whatever it is
ListRemoveLast(l, x) == SubSeq(l, 1, Len(l) - 1)

\* l.remove(x): removes the first occurrence
ListRemove(l, x) ==
    LET i == CHOOSE j \in 1..Len(l) :
                 /\ l[j] = x
                 /\ \A h \in 1..(j - 1) : l[h] # x
    IN  SubSeq(l, 1, i - 1) \o SubSeq(l, i + 1, Len(l))

\* truth value of a product argument ("if product")
Truthy(product) == product # None /\ product # <<>>

EmptyMeta == [k \in {} |-> <<>>]

\* dict.update
DictUpdate(d, u) ==
    [k \in DOMAIN d \cup DOMAIN u |-> IF k \in DOMAIN u THEN u[k] ELSE d[k]]

\* d with d[k] = v
DictSet(d, k, v) == DictUpdate(d, [x \in {k} |-> v])

-----------------------------------------------------------------------------
(* Local collaborator *)

\* mrrc.util.read_sha1: the sha1 of a local file, a function of its content
read_sha1(file) ==
    CASE file = "b1" -> <<"d", "1">>
      [] file = "b2" -> <<"d", "2">>
      [] OTHER -> <<>>

-----------------------------------------------------------------------------
(* Key derivation, __do_path_cut_and *)

\* a root that is taken as it is given
SlashRootAsGiven(root) == root

SlashRoot(root) ==
    IF ~EndsWith(root, <<"/">>) THEN root \o <<"/">> ELSE root

CutPath(slash_root, full_path) ==
    IF StartsWith(full_path, slash_root)
    THEN SubSeq(full_path, Len(slash_root) + 1, Len(full_path))
    ELSE full_path

Keys == {CutPath(SlashRoot(r), p) : r \in Roots, p \in Paths}


-----------------------------------------------------------------------------
(* The object store *)

\* fileObject.load() succeeds
FileExists(st, key) == key \in DOMAIN st

\* fileObject.metadata as cached by load()
LoadedMetadata(st, key) == IF key \in DOMAIN st THEN st[key].meta ELSE EmptyMeta

\* fileObject.put(Body=..., Metadata=...) and fileObject.upload_file(...)
Put(st, key, body, meta) ==
    [k \in DOMAIN st \cup {key} |->
        IF k = key THEN [body |-> body, meta |-> meta] ELSE st[k]]

\* fileObject.copy_from(CopySource=same key, Metadata=..., REPLACE), key present
CopyFrom(st, key, meta) ==
    [st EXCEPT ![key] = [body |-> st[key].body, meta |-> meta]]

\* a delete request that empties the bucket
DeleteObjectsAll(st, key) == [k \in {} |-> st[k]]

\* bucket.delete_objects(Delete={'Objects':[{'Key':path}]})
DeleteObjects(st, key) == [k \in DOMAIN st \ {key} |-> st[k]]

\* a copy that replaces the metadata by the new entries alone
UpdateFileMetadataOnly(st, key, cached, metadata) == CopyFrom(st, key, metadata)

\* a copy that merges the new entries into the metadata the object has now
UpdateFileMetadataFresh(st, key, cached, metadata) ==
    CopyFrom(st, key, DictUpdate(st[key].meta, metadata))

\* __update_file_metadata
UpdateFileMetadata(st, key, cached, metadata) ==
    CopyFrom(st, key, DictUpdate(cached, metadata))

-----------------------------------------------------------------------------
(* Decisions of the handlers *)

\* a new object written without its product
NewFileMetaNoProduct(sha1, product) ==
    IF Strip(sha1) # <<>>
    THEN DictSet(EmptyMeta, CHECKSUM_META_KEY, sha1)
    ELSE EmptyMeta

\* upload_files: metadata of a new object
NewFileMeta(sha1, product) ==
    LET m1 == IF Strip(sha1) # <<>>
              THEN DictSet(EmptyMeta, CHECKSUM_META_KEY, sha1)
              ELSE EmptyMeta
    IN  IF Truthy(product) THEN DictSet(m1, PRODUCT_META_KEY, product) ELSE m1

\* a gate that lets every content through
ChecksumMismatchNever(f_meta, sha1) == FALSE

\* upload_files: the checksum gate on an existing object
ChecksumMismatch(f_meta, sha1) ==
    LET checksum == IF CHECKSUM_META_KEY \in DOMAIN f_meta
                    THEN f_meta[CHECKSUM_META_KEY]
                    ELSE <<>>
    IN  checksum # <<>> /\ Strip(checksum) # sha1

\* the product list of a metadata dict ([] on KeyError)
ProdsOf(f_meta) ==
    IF PRODUCT_META_KEY \in DOMAIN f_meta
    THEN SplitComma(f_meta[PRODUCT_META_KEY])
    ELSE <<>>

\* a merge that does not look the product up
ProductIsNewAlways(product, prods) == TRUE

\* "if product not in prods"
ProductIsNew(product, prods) == ~InList(product, prods)

\* a rewrite of the body for new objects only
NeedOverwrittenOnlyNew(existed, f_meta, sha1) == ~existed

\* upload_metadatas: need_overwritten
NeedOverwritten(existed, f_meta, sha1) ==
    IF existed
    THEN \/ CHECKSUM_META_KEY \notin DOMAIN f_meta
         \/ sha1 # f_meta[CHECKSUM_META_KEY]
    ELSE TRUE

\* delete_files: "if product and product in prods"
ProductIsReleased(product, prods) == Truthy(product) /\ InList(product, prods)

\* a test that never finds the product list empty
NoProductLeftNever(prods) == FALSE

\* a test that deletes whatever the product list holds
NoProductLeftAlways(prods) == TRUE

\* a test that is off by one
NoProductLeftOffByOne(prods) == Len(prods) <= 1

\* delete_files: "if len(prods)==0" before delete_objects
NoProductLeft(prods) == Len(prods) = 0

Outcome(st, result, write, raised) ==
    [store |-> st, result |-> result, write |-> write, raised |-> raised]

\* upload_files.path_upload_handler after the probe
UploadOutcome(st, path, file, existed, cached, product) ==
    LET sha1 == read_sha1(file) IN
    IF ~existed
    THEN LET f_meta == NewFileMeta(sha1, product) IN
         Outcome(Put(st, path, file, f_meta), "None",
                 IF DOMAIN f_meta # {} THEN "put" ELSE "upload_file", "no")
    ELSE IF ChecksumMismatch(cached, sha1)
    THEN Outcome(st, "False", "none", "no")
    ELSE LET prods == ProdsOf(cached) IN
         IF ProductIsNew(product, prods)
         THEN LET prods2 == ListAppend(prods, product) IN
              IF JoinRaises(prods2)
              THEN Outcome(st, "raise", "none", "TypeError")
              ELSE IF ~FileExists(st, path)
              THEN Outcome(st, "raise", "none", "ClientError")
              ELSE Outcome(UpdateFileMetadata(st, path, cached,
                               DictSet(EmptyMeta, PRODUCT_META_KEY, JoinComma(prods2))),
                           "True", "copy_from", "no")
         ELSE Outcome(st, "True", "none", "no")

\* upload_metadatas.path_upload_handler after the probe
MetadataOutcome(st, path, file, existed, cached, product) ==
    LET sha1 == read_sha1(file)
        f_meta0 == IF existed THEN cached ELSE EmptyMeta
        need_overwritten == NeedOverwritten(existed, f_meta0, sha1)
        f_meta1 == DictSet(f_meta0, CHECKSUM_META_KEY, sha1)
        prods == ProdsOf(f_meta1)
    IN  IF ProductIsNew(product, prods) /\ JoinRaises(ListAppend(prods, product))
        THEN Outcome(st, "raise", "none", "TypeError")
        ELSE LET f_meta == IF ProductIsNew(product, prods)
                           THEN DictSet(f_meta1, PRODUCT_META_KEY,
                                        JoinComma(ListAppend(prods, product)))
                           ELSE f_meta1
             IN  IF need_overwritten
                 THEN Outcome(Put(st, path, file, f_meta), "True", "put", "no")
                 ELSE IF ~FileExists(st, path)
                 THEN Outcome(st, "raise", "none", "ClientError")
                 ELSE Outcome(UpdateFileMetadata(st, path, f_meta, f_meta),
                              "True", "copy_from", "no")

\* delete_files.path_delete_handler after the probe
DeleteOutcome(st, path, existed, cached, product) ==
    IF ~existed
    THEN \* "if len(prods)==0" reads prods, which is only bound when existed
         Outcome(st, "raise", "none", "UnboundLocalError")
    ELSE LET prods0 == ProdsOf(cached) IN
         IF ProductIsReleased(product, prods0)
         THEN LET prods == ListRemove(prods0, product) IN
              IF Len(prods) > 0
              THEN IF ~FileExists(st, path)
                   THEN Outcome(st, "raise", "none", "ClientError")
                   ELSE Outcome(UpdateFileMetadata(st, path, cached,
                                    DictSet(EmptyMeta, PRODUCT_META_KEY, JoinComma(prods))),
                                "None", "copy_from", "no")
              ELSE IF NoProductLeft(prods)
              THEN Outcome(DeleteObjects(st, path), "None", "delete_objects", "no")
              ELSE Outcome(st, "None", "none", "no")
         ELSE IF NoProductLeft(prods0)
         THEN Outcome(DeleteObjects(st, path), "None", "delete_objects", "no")
         ELSE Outcome(st, "None", "none", "no")

-----------------------------------------------------------------------------
(* State machine *)

\* todo: the number of elements of file_paths the loop has not reached yet.  No
\* step reads an element before the loop reaches it, so the element is drawn then.
IdleCall == [fn |-> "idle", product |-> None, slash_root |-> <<>>, todo |-> 0]

NoItem == [pc |-> "none", path |-> <<>>, file |-> Missing, existed |-> FALSE,
           metadata |-> EmptyMeta]

NoLast == [fn |-> "none", path |-> <<>>, product |-> None, file |-> Missing,
           existed |-> FALSE, result |-> "None", write |-> "none", raised |-> "no",
           skipped |-> 0, found |-> <<>>, repeat |-> FALSE]

NoDerivation == [fn |-> "none", root |-> <<>>, full_path |-> <<>>, path |-> <<>>]

Init ==
    /\ store = [k \in {} |-> [body |-> "b0", meta |-> EmptyMeta]]
    /\ call = [c \in Callers |-> IdleCall]
    /\ item = [c \in Callers |-> NoItem]
    /\ last = NoLast
    /\ claimed = [k \in Keys |-> {}]
    /\ nitems = 0
    /\ derivation = NoDerivation

\* the body of upload_files / upload_metadatas / delete_files up to the loop
\* of __do_path_cut_and
StartCall(c, fn, products, budget) ==
    /\ call[c].fn = "idle"
    /\ \E len \in 1..(budget - nitems), product \in products, root \in Roots :
          /\ call' = [call EXCEPT ![c] = [fn |-> fn, product |-> product,
                                          slash_root |-> SlashRoot(root),
                                          todo |-> len]]
          /\ nitems' = nitems + len
    /\ UNCHANGED <<store, item, last, claimed, derivation>>

\* history of the owners' claims
ClaimedAfter(fn, path, product, out) ==
    IF out.raised # "no" \/ product \notin Products THEN claimed
    ELSE IF fn = "delete_files"
    THEN [claimed EXCEPT ![path] = @ \ {product}]
    ELSE IF out.result # "False"
    THEN [claimed EXCEPT ![path] = @ \cup {product}]
    ELSE claimed

\* a loop that a handler's False ends
AfterRunStopOnFalse(cl, out) ==
    IF out.raised # "no" \/ out.result = "False" \/ cl.todo = 1
    THEN IdleCall
    ELSE [cl EXCEPT !.todo = @ - 1]

\* the loop of __do_path_cut_and after fn(full_path, path): the value returned is
\* dropped and the next element is taken; an exception leaves the loop
AfterRun(cl, out) ==
    IF out.raised # "no" \/ cl.todo = 1
    THEN IdleCall
    ELSE [cl EXCEPT !.todo = @ - 1]

\* the handler returns or raises: the loop goes on, ends, or is left by the exception
Finish(c, path, file, existed, out) ==
    /\ store' = out.store
    /\ item' = [item EXCEPT ![c] = NoItem]
    /\ last' = [fn |-> call[c].fn, path |-> path, product |-> call[c].product,
                file |-> file, existed |-> existed, result |-> out.result,
                write |-> out.write, raised |-> out.raised,
                skipped |-> IF out.raised # "no" THEN call[c].todo - 1 ELSE 0,
                found |-> IF existed THEN ProdsOf(item[c].metadata) ELSE <<>>,
                repeat |-> /\ last.fn = call[c].fn
                           /\ last.path = path
                           /\ last.product = call[c].product
                           /\ last.file = file]
    /\ claimed' = ClaimedAfter(call[c].fn, path, call[c].product, out)
    /\ call' = [call EXCEPT ![c] = AfterRun(@, out)]
    /\ UNCHANGED <<nitems, derivation>>

Probed(c, path, file) ==
    /\ item' = [item EXCEPT ![c] = [pc |-> "probed", path |-> path, file |-> file,
                                    existed |-> FileExists(store, path),
                                    metadata |-> LoadedMetadata(store, path)]]
    /\ UNCHANGED <<store, call, last, claimed, nitems, derivation>>

\* path_upload_handler of upload_files and of upload_metadatas up to read_sha1:
\* isfile, load
UploadProbe(c, files) ==
    /\ call[c].fn \in {"upload_files", "upload_metadatas"}
    /\ item[c].pc = "none"
    /\ \E full_path \in Paths, file \in files :
          LET path == CutPath(call[c].slash_root, full_path) IN
          IF file = Missing
          THEN Finish(c, path, Missing, FALSE, Outcome(store, "False", "none", "no"))
          ELSE Probed(c, path, file)

\* path_delete_handler up to __file_exists
DeleteProbe(c) ==
    /\ call[c].fn = "delete_files"
    /\ item[c].pc = "none"
    /\ \E full_path \in Paths :
          Probed(c, CutPath(call[c].slash_root, full_path), Missing)

UploadWrite(c) ==
    /\ call[c].fn = "upload_files"
    /\ item[c].pc = "probed"
    /\ Finish(c, item[c].path, item[c].file, item[c].existed,
              UploadOutcome(store, item[c].path, item[c].file, item[c].existed,
                            item[c].metadata, call[c].product))

MetadataWrite(c) ==
    /\ call[c].fn = "upload_metadatas"
    /\ item[c].pc = "probed"
    /\ Finish(c, item[c].path, item[c].file, item[c].existed,
              MetadataOutcome(store, item[c].path, item[c].file, item[c].existed,
                              item[c].metadata, call[c].product))

DeleteWrite(c) ==
    /\ call[c].fn = "delete_files"
    /\ item[c].pc = "probed"
    /\ Finish(c, item[c].path, Missing, item[c].existed,
              DeleteOutcome(store, item[c].path, item[c].existed,
                            item[c].metadata, call[c].product))

-----------------------------------------------------------------------------
(* One caller: its calls, and the handler runs of each call, follow one      *)
(* another.  Every input the functions accept is drawn.                      *)

Caller == "c1"

UploadFiles == StartCall(Caller, "upload_files", ProductArgs, MaxItems)

UploadMetadatas == StartCall(Caller, "upload_metadatas", ProductArgs, MaxItems)

DeleteFiles == StartCall(Caller, "delete_files", ProductArgs, MaxItems)

PathUploadProbe == UploadProbe(Caller, LocalFiles \cup {Missing})

PathDeleteProbe == DeleteProbe(Caller)

PathUploadWrite == UploadWrite(Caller)

PathMetadataWrite == MetadataWrite(Caller)

PathDeleteWrite == DeleteWrite(Caller)

Next ==
    \/ UploadFiles
    \/ UploadMetadatas
    \/ DeleteFiles
    \/ PathUploadProbe
    \/ PathDeleteProbe
    \/ PathUploadWrite
    \/ PathMetadataWrite
    \/ PathDeleteWrite

Spec == Init /\ [][Next]_vars

-----------------------------------------------------------------------------
(* Two callers whose probes and writes interleave in every way.  The calls   *)
(* name a product and their local files exist and have a sha1.               *)

RacingFiles == {"b1", "b2"}

RacingUploadFiles(c) == StartCall(c, "upload_files", Products, MaxItems)

RacingUploadMetadatas(c) == StartCall(c, "upload_metadatas", Products, MaxItems)

RacingDeleteFiles(c) == StartCall(c, "delete_files", Products, MaxItems)

RacingUploadProbe(c) == UploadProbe(c, RacingFiles)

NextRacing ==
    \E c \in Callers :
        \/ RacingUploadFiles(c)
        \/ RacingUploadMetadatas(c)
        \/ RacingDeleteFiles(c)
        \/ RacingUploadProbe(c)
        \/ DeleteProbe(c)
        \/ UploadWrite(c)
        \/ MetadataWrite(c)
        \/ DeleteWrite(c)

SpecRacing == Init /\ [][NextRacing]_vars

-----------------------------------------------------------------------------
(* Key derivation alone: __do_path_cut_and as upload_files, upload_metadatas *)
(* and delete_files call it, for one element of file_paths, up to the call   *)
(* of the handler.  Roots and paths are all the strings over three           *)
(* characters up to a length; a behaviour is one call.                       *)

KeyChars == {"/", "r", "a"}

RECURSIVE StringsUpTo(_)
StringsUpTo(n) ==
    IF n = 0 THEN {<<>>}
    ELSE LET shorter == StringsUpTo(n - 1)
         IN  shorter \cup {Append(s, ch) : s \in shorter, ch \in KeyChars}

KeyStrings == StringsUpTo(MaxKeyLen)

DoPathCutAnd(fn) ==
    /\ derivation.fn = "none"
    /\ \E root \in KeyStrings, full_path \in KeyStrings :
          derivation' = [fn |-> fn, root |-> root, full_path |-> full_path,
                         path |-> CutPath(SlashRoot(root), full_path)]
    /\ UNCHANGED <<store, call, item, last, claimed, nitems>>

UploadFilesKey == DoPathCutAnd("upload_files")

UploadMetadatasKey == DoPathCutAnd("upload_metadatas")

DeleteFilesKey == DoPathCutAnd("delete_files")

NextKeys ==
    \/ UploadFilesKey
    \/ UploadMetadatasKey
    \/ DeleteFilesKey

SpecKeys == Init /\ [][NextKeys]_vars

-----------------------------------------------------------------------------
(* Vocabulary of the properties *)

\* the owner list stored for key k in bucket st
Owners(st, k) == ProdsOf(st[k].meta)

\* the checksum recorded for key k in bucket st ("" when none is)
Digest(st, k) ==
    IF CHECKSUM_META_KEY \in DOMAIN st[k].meta
    THEN st[k].meta[CHECKSUM_META_KEY]
    ELSE <<>>

Count(x, l) == Cardinality({i \in 1..Len(l) : l[i] = x})

Elems(l) == {l[i] : i \in 1..Len(l)}

\* this step is the return (or the raise) of a handler run; last' describes the run
RunEnds == nitems' = nitems /\ call' # call

\* the last run returned without reporting a failure
Succeeded(run) == run.raised = "no" /\ run.result # "False"

-----------------------------------------------------------------------------
(* C1  Idempotent upload.  An upload_files run for (key, file, product) with *)
(* a product that is not None and that is not rejected leaves an object at   *)
(* the key whose owner list holds the product exactly once; and a run that   *)
(* repeats the run before it (same key, file and product) sends no mutating  *)
(* request and leaves the bucket as the first run left it.                   *)

C1_IdempotentUpload ==
    [][ (RunEnds /\ last'.fn = "upload_files" /\ last'.product \in Products) =>
          /\ Succeeded(last') =>
                /\ last'.path \in DOMAIN store'
                /\ Count(last'.product, Owners(store', last'.path)) = 1
          /\ last'.repeat =>
                /\ store' = store
                /\ last'.write = "none"
                /\ last'.raised = "no"
                /\ Succeeded(last) => Succeeded(last') ]_vars

\* an accepted upload has just been repeated
C1_Witness ==
    /\ last.fn = "upload_files"
    /\ last.repeat
    /\ last.product \in Products
    /\ last.result = "True"
    /\ last.path \in DOMAIN store
    /\ Count(last.product, Owners(store, last.path)) = 1

-----------------------------------------------------------------------------
(* C2  Checksum gate.  An upload_files run whose key holds an object with a  *)
(* recorded digest d1, for a file of digest d2 # d1, returns False (the      *)
(* checksum conflict), sends no mutating request and leaves body, digest and *)
(* owners of the object as they were: the product of the call is not added.  *)

C2_ChecksumGate ==
    [][ ( /\ RunEnds
          /\ last'.fn = "upload_files"
          /\ last'.file # Missing
          /\ last'.path \in DOMAIN store
          /\ Digest(store, last'.path) # <<>>
          /\ read_sha1(last'.file) # <<>>
          /\ read_sha1(last'.file) # Digest(store, last'.path) ) =>
          /\ last'.result = "False"
          /\ last'.raised = "no"
          /\ last'.write = "none"
          /\ store' = store ]_vars

\* a second product's upload of other content was rejected; [P1] is still the owner list
C2_Witness ==
    /\ last.fn = "upload_files"
    /\ last.result = "False"
    /\ last.existed
    /\ last.file # Missing
    /\ last.product \in Products
    /\ last.path \in DOMAIN store
    /\ Len(Owners(store, last.path)) = 1
    /\ last.product \notin Elems(Owners(store, last.path))
    /\ Digest(store, last.path) # <<>>
    /\ read_sha1(last.file) # <<>>
    /\ read_sha1(last.file) # Digest(store, last.path)
    /\ read_sha1(store[last.path].body) = Digest(store, last.path)

-----------------------------------------------------------------------------
(* C3  Object survival, as amended.  An object leaves the bucket only in the *)
(* step of a delete_files run on its key that finds no product left after    *)
(* its removal step: the run removed the only owner, or the object had no    *)
(* owner at all.  Hence every product whose upload to a key was accepted and *)
(* that was not released since is in the owner list of an object at the key. *)

ClaimsKept ==
    \A k \in Keys :
        claimed[k] # {} =>
            /\ k \in DOMAIN store
            /\ claimed[k] \subseteq Elems(Owners(store, k))

C3_ObjectSurvival ==
    [][ /\ \A k \in DOMAIN store :
              k \notin DOMAIN store' =>
                  /\ RunEnds
                  /\ last'.fn = "delete_files"
                  /\ last'.path = k
                  /\ last'.write = "delete_objects"
                  /\ \/ Owners(store, k) = <<last'.product>>
                     \/ Owners(store, k) = <<>>
        /\ ClaimsKept' ]_vars

(* C3 as stated: only a delete_files run that itself removed the last owner  *)
(* deletes an object.                                                        *)
C3_AsStated ==
    [][ /\ \A k \in DOMAIN store :
              k \notin DOMAIN store' =>
                  /\ RunEnds
                  /\ last'.fn = "delete_files"
                  /\ last'.path = k
                  /\ Owners(store, k) = <<last'.product>>
        /\ ClaimsKept' ]_vars

\* a release removed the only owner and deleted the object; the other key keeps
\* its claims
C3_Witness ==
    /\ last.fn = "delete_files"
    /\ last.write = "delete_objects"
    /\ last.found = <<last.product>>
    /\ last.path \notin DOMAIN store
    /\ \E k \in Keys : claimed[k] # {} /\ k \in DOMAIN store

-----------------------------------------------------------------------------
(* C4  Release down to zero.  A delete_files run with product p on an object *)
(* whose owner list is [p, q] sends a copy_from only; the object stays, with *)
(* owner list [q] and with its body and digest.  A delete_files run with the *)
(* only owner of an object deletes the object.                               *)

C4_ReleaseDownToZero ==
    [][ ( /\ RunEnds
          /\ last'.fn = "delete_files"
          /\ last'.path \in DOMAIN store ) =>
          LET k == last'.path
              owners == Owners(store, k)
          IN  /\ ( /\ Len(owners) = 2
                   /\ owners[1] # owners[2]
                   /\ last'.product = owners[1] ) =>
                     /\ last'.write = "copy_from"
                     /\ k \in DOMAIN store'
                     /\ Owners(store', k) = <<owners[2]>>
                     /\ store'[k].body = store[k].body
                     /\ Digest(store', k) = Digest(store, k)
                     /\ DOMAIN store'[k].meta = DOMAIN store[k].meta
              /\ owners = <<last'.product>> =>
                     /\ last'.write = "delete_objects"
                     /\ k \notin DOMAIN store' ]_vars

\* product p of the owner list [p, q] was released: [q] is left on the same object
C4_Witness ==
    /\ last.fn = "delete_files"
    /\ last.existed
    /\ Len(last.found) = 2
    /\ last.found[1] # last.found[2]
    /\ last.product = last.found[1]
    /\ last.write = "copy_from"
    /\ last.path \in DOMAIN store
    /\ Owners(store, last.path) = <<last.found[2]>>
    /\ Digest(store, last.path) # <<>>
    /\ read_sha1(store[last.path].body) = Digest(store, last.path)

-----------------------------------------------------------------------------
(* C5  Release no-op.  A delete_files run with a product that is not in the  *)
(* non-empty owner list of the object sends no mutating request: the bucket  *)
(* is unchanged.                                                             *)

C5_ReleaseNoOp ==
    [][ ( /\ RunEnds
          /\ last'.fn = "delete_files"
          /\ last'.path \in DOMAIN store
          /\ Owners(store, last'.path) # <<>>
          /\ last'.product \notin Elems(Owners(store, last'.path)) ) =>
          /\ store' = store
          /\ last'.write = "none"
          /\ last'.raised = "no" ]_vars

\* a product that owns nothing of the object was released; the owners are there
C5_Witness ==
    /\ last.fn = "delete_files"
    /\ last.existed
    /\ last.product \in Products
    /\ last.found # <<>>
    /\ last.product \notin Elems(last.found)
    /\ last.write = "none"
    /\ last.path \in DOMAIN store
    /\ Owners(store, last.path) = last.found

-----------------------------------------------------------------------------
(* C6  Deleting an absent key is a no-op and no error: a delete_files run    *)
(* that finds no object at its key sends no mutating request, raises         *)
(* nothing, and the loop reaches every later item of the batch.              *)

C6_AbsentKeyNoOp ==
    (last.fn = "delete_files" /\ ~last.existed) =>
        /\ last.write = "none"
        /\ last.raised = "no"
        /\ last.skipped = 0

-----------------------------------------------------------------------------
(* C7  Existence invariant, as amended.  An object with an empty owner list  *)
(* comes into the bucket only by an upload_files run with no product on an   *)
(* absent key; no other step makes or leaves an owner list empty, and no     *)
(* owner entry is an empty string.                                           *)

Ownerless(st, k) == k \in DOMAIN st /\ Elems(Owners(st, k)) \subseteq {<<>>}

C7_ExistenceInvariant ==
    [][ \A k \in Keys :
            Ownerless(store', k) =>
                \/ Ownerless(store, k) /\ store'[k] = store[k]
                \/ /\ RunEnds
                   /\ last'.fn = "upload_files"
                   /\ last'.product = None
                   /\ last'.path = k
                   /\ k \notin DOMAIN store
                   /\ Owners(store', k) = <<>> ]_vars

(* C7 as stated: every object in the bucket has a non-empty owner list.      *)
C7_AsStated == \A k \in Keys : ~Ownerless(store, k)

\* an upload with a product has put an object beside one uploaded without product
C7_Witness ==
    \E k1, k2 \in DOMAIN store :
        /\ Owners(store, k1) = <<>>
        /\ Owners(store, k2) # <<>>
        /\ last.path = k2
        /\ last.fn \in {"upload_files", "upload_metadatas"}
        /\ last.product \in Products

-----------------------------------------------------------------------------
(* C8  No duplicate owners.  In every state reached by the interleaved probes *)
(* and writes of upload_files, upload_metadatas and delete_files runs that   *)
(* name a product, no product occurs twice in the owner list of an object.   *)

C8_NoDuplicateOwners ==
    \A k \in DOMAIN store :
        \A p \in Elems(Owners(store, k)) : Count(p, Owners(store, k)) = 1

\* two runs on one key have raced: a write built from a stale probe has replaced
\* the owner list of the other write
C8_Witness ==
    \E k \in DOMAIN store :
        /\ Len(Owners(store, k)) >= 2
        /\ ~(claimed[k] \subseteq Elems(Owners(store, k)))
        /\ last.path = k
        /\ last.write = "copy_from"

-----------------------------------------------------------------------------
(* C9  Digest immutability.  No upload_files or delete_files run changes the *)
(* recorded digest or the body of an object that stays in the bucket: the    *)
(* copy_from of an owner update carries the recorded digest over.            *)

C9_DigestImmutable ==
    [][ (RunEnds /\ last'.fn \in {"upload_files", "delete_files"}) =>
          \A k \in DOMAIN store \cap DOMAIN store' :
              CHECKSUM_META_KEY \in DOMAIN store[k].meta =>
                  /\ store'[k].body = store[k].body
                  /\ CHECKSUM_META_KEY \in DOMAIN store'[k].meta
                  /\ Digest(store', k) = Digest(store, k) ]_vars

\* an owner update by copy_from on an object that has a digest
C9_Witness ==
    /\ last.fn \in {"upload_files", "delete_files"}
    /\ last.write = "copy_from"
    /\ last.path \in DOMAIN store
    /\ Digest(store, last.path) # <<>>
    /\ read_sha1(store[last.path].body) = Digest(store, last.path)
    /\ Owners(store, last.path) # last.found

-----------------------------------------------------------------------------
(* C10  Owner merge order.  An accepted upload run of a product that is not  *)
(* in the owner list of the object appends it at the end of the list, and of *)
(* a product that is in the list leaves the list alone; a delete_files run   *)
(* that leaves the object takes one entry out and keeps the order of the     *)
(* others.  So product A and then product B give [A, B].                     *)

WithoutOne(l, l2) ==
    \E i \in 1..Len(l) : l2 = SubSeq(l, 1, i - 1) \o SubSeq(l, i + 1, Len(l))

-----------------------------------------------------------------------------
(* C11  Metadata-file override.  An upload_metadatas run with a product, for *)
(* a file that is there, never reports a conflict.  It leaves an object at   *)
(* the key whose recorded digest is the digest of the file and whose owner   *)
(* list is the list found with the product appended if it was absent.  When  *)
(* the object has a recorded digest equal to the new one the run sends a     *)
(* copy_from only and the body stays; in every other case (another digest,   *)
(* no object) it writes the body anew with the content of the file.          *)

-----------------------------------------------------------------------------
(* C12  Partial-failure batches.  An upload_files or upload_metadatas run    *)
(* whose local file is missing, and an upload_files run that meets a         *)
(* checksum conflict, returns False once, raises nothing, sends no mutating  *)
(* request and leaves the whole bucket as it was; the loop goes on to the    *)
(* next item with the product and the root of the call, so the later items   *)
(* start from the state they would start from without the failing item.  No  *)
(* run returns False for another reason.                                     *)

FailingItem(st, run) ==
    \/ run.file = Missing
    \/ /\ run.fn = "upload_files"
       /\ run.path \in DOMAIN st
       /\ Digest(st, run.path) # <<>>
       /\ read_sha1(run.file) # Digest(st, run.path)

C12_PartialFailure ==
    [][ (RunEnds /\ last'.fn \in {"upload_files", "upload_metadatas"}) =>
          /\ FailingItem(store, last') =>
                /\ last'.result = "False"
                /\ last'.raised = "no"
                /\ last'.write = "none"
                /\ last'.skipped = 0
                /\ store' = store
                /\ claimed' = claimed
                /\ item'[Caller] = NoItem
                /\ call'[Caller] = IF call[Caller].todo = 1
                                   THEN IdleCall
                                   ELSE [call[Caller] EXCEPT !.todo = @ - 1]
          /\ last'.result = "False" => FailingItem(store, last') ]_vars

\* the second item of a batch of three has failed for its missing file: the first
\* item is in the bucket and the third is to come
C12_Witness ==
    /\ last.file = Missing
    /\ last.fn \in {"upload_files", "upload_metadatas"}
    /\ last.result = "False"
    /\ call[Caller].fn = last.fn
    /\ call[Caller].todo = 1
    /\ nitems = 3
    /\ DOMAIN store # {}
    /\ item[Caller] = NoItem

-----------------------------------------------------------------------------
(* C13  Distinct-key independence.  With the probes and writes of two         *)
(* callers interleaved in every way, each step of a handler run on key k     *)
(* reads the object at k only and changes the object at k only: the probe    *)
(* and the write give what they give on a bucket that holds nothing but the  *)
(* object at k, and the objects at the other keys stay as they are.  So the  *)
(* state of every key is the one its own runs produce alone.                 *)

\* the bucket without the objects at the keys other than k
Alone(st, k) == [x \in DOMAIN st \cap {k} |-> st[x]]

\* what the write step of the run in flight gives on bucket st
RunOutcome(fn, st, it, product) ==
    CASE fn = "upload_files" ->
             UploadOutcome(st, it.path, it.file, it.existed, it.metadata, product)
      [] fn = "upload_metadatas" ->
             MetadataOutcome(st, it.path, it.file, it.existed, it.metadata, product)
      [] OTHER ->
             DeleteOutcome(st, it.path, it.existed, it.metadata, product)

C13_DistinctKeys ==
    [][ \A c \in Callers :
          /\ (item[c].pc = "none" /\ item'[c].pc = "probed") =>
                LET k == item'[c].path IN
                /\ item'[c].existed = FileExists(Alone(store, k), k)
                /\ item'[c].metadata = LoadedMetadata(Alone(store, k), k)
                /\ store' = store
          /\ (item[c].pc = "probed" /\ item'[c].pc = "none") =>
                LET k == item[c].path
                    out == RunOutcome(call[c].fn, Alone(store, k), item[c],
                                      call[c].product)
                IN  /\ \A k2 \in (DOMAIN store \cup DOMAIN store') \ {k} :
                           /\ k2 \in DOMAIN store \cap DOMAIN store'
                           /\ store'[k2] = store[k2]
                    /\ (k \in DOMAIN store') = (k \in DOMAIN out.store)
                    /\ k \in DOMAIN store' => store'[k] = out.store[k]
                    /\ last'.path = k
                    /\ last'.result = out.result
                    /\ last'.write = out.write
                    /\ last'.raised = out.raised ]_vars

\* a run has written to one key between the probe and the write of a run of the
\* other caller on another key, whose object is as that probe saw it
C13_Witness ==
    \E c \in Callers :
        /\ item[c].pc = "probed"
        /\ item[c].existed
        /\ item[c].path # last.path
        /\ last.write \in {"put", "copy_from", "delete_objects"}
        /\ call[c].fn # "idle"
        /\ \E c2 \in Callers \ {c} : item[c2].pc = "none" /\ call[c2].fn = "idle"
        /\ nitems = 3
        /\ item[c].path \in DOMAIN store
        /\ store[item[c].path].meta = item[c].metadata

-----------------------------------------------------------------------------
(* C14  Lost update on one key.  The copy_from of an upload_files run stores *)
(* the metadata its probe read, with the owner list its probe read plus its  *)
(* product, whatever has been written to the key since the probe.  So when   *)
(* two upload_files runs with products P1 and P2 probe an object owned by    *)
(* [P0] before either writes, both return True and the owner list is left    *)
(* with one of P1 and P2 only.                                               *)

C14_StaleMerge ==
    [][ \A c \in Callers :
          ( /\ item[c].pc = "probed"
            /\ item'[c].pc = "none"
            /\ call[c].fn = "upload_files"
            /\ last'.write = "copy_from" ) =>
              LET k == item[c].path
                  read == ProdsOf(item[c].metadata)
              IN  /\ last'.result = "True"
                  /\ k \in DOMAIN store
                  /\ k \in DOMAIN store'
                  /\ store'[k].body = store[k].body
                  /\ store'[k].meta =
                         DictSet(item[c].metadata, PRODUCT_META_KEY,
                                 JoinComma(Append(read, call[c].product)))
                  /\ Owners(store', k) = Append(read, call[c].product) ]_vars

\* both uploads have returned True; the owner list has P0 and the product of the
\* later write, and has lost the product of the earlier one
C14_Witness ==
    \E k \in DOMAIN store :
        \E P0, P1, P2 \in Products :
            /\ Cardinality({P0, P1, P2}) = 3
            /\ claimed[k] = {P0, P1, P2}
            /\ Owners(store, k) = <<P0, P2>>
            /\ last.fn = "upload_files"
            /\ last.path = k
            /\ last.product = P2
            /\ last.result = "True"
            /\ last.write = "copy_from"
            /\ last.found = <<P0>>
            /\ \A c \in Callers : call[c].fn = "idle"

-----------------------------------------------------------------------------
(* C15  Key derivation.  For every root r and path p the key is p without    *)
(* its prefix r2 when p starts with r2, where r2 is r with a "/" added       *)
(* unless r ends with one, and is p itself otherwise.  The roots r and r "/" *)
(* give the same key when r does not end with "/", and upload_files,         *)
(* upload_metadatas and delete_files derive the key in this one way.         *)

\* the key as the statement gives it
StatedKey(r, p) ==
    LET r2 == IF r # <<>> /\ r[Len(r)] = "/" THEN r ELSE r \o <<"/">>
        starts == /\ Len(p) >= Len(r2)
                  /\ \A i \in 1..Len(r2) : p[i] = r2[i]
    IN  IF starts THEN [i \in 1..(Len(p) - Len(r2)) |-> p[i + Len(r2)]] ELSE p

C15_KeyDerivation ==
    derivation.fn # "none" =>
        /\ derivation.path = StatedKey(derivation.root, derivation.full_path)
        /\ (derivation.root = <<>> \/ derivation.root[Len(derivation.root)] # "/") =>
               derivation.path =
                   StatedKey(derivation.root \o <<"/">>, derivation.full_path)

\* delete_files with root "/r" has cut "/r/a" down to "a"
C15_Witness ==
    /\ derivation.fn = "delete_files"
    /\ derivation.root = <<"/", "r">>
    /\ derivation.full_path = <<"/", "r", "/", "a">>
    /\ derivation.path = <<"a">>

-----------------------------------------------------------------------------
(* C16  Release of a product that is no owner, as amended.  A delete_files   *)
(* run with a product that is not in the owner list of the object (None      *)
(* included) sends no request and leaves the bucket as it is when the owner  *)
(* list is not empty; when the object has no owner (its owner list is empty  *)
(* or absent) the run deletes the object, and nothing but that object.       *)

NotAnOwner(st, run) ==
    /\ run.fn = "delete_files"
    /\ run.path \in DOMAIN st
    /\ run.product \notin Elems(Owners(st, run.path))

C16_ReleaseOfNonOwner ==
    [][ (RunEnds /\ NotAnOwner(store, last')) =>
          /\ last'.raised = "no"
          /\ Owners(store, last'.path) # <<>> =>
                /\ last'.write = "none"
                /\ store' = store
          /\ Owners(store, last'.path) = <<>> =>
                /\ last'.write = "delete_objects"
                /\ store' = [k \in DOMAIN store \ {last'.path} |-> store[k]] ]_vars

(* C16 as stated: a delete_files run with a product that is not in the owner *)
(* list never deletes the object and leaves owners and body untouched, also  *)
(* when the owner list is empty or absent.                                   *)
C16_AsStated ==
    [][ (RunEnds /\ NotAnOwner(store, last')) =>
          /\ last'.write = "none"
          /\ store' = store ]_vars

\* a product was released from an object that had no owner: the object is gone,
\* the object at the other key is there
C16_Witness ==
    /\ last.fn = "delete_files"
    /\ last.existed
    /\ last.found = <<>>
    /\ last.product \in Products
    /\ last.write = "delete_objects"
    /\ last.path \notin DOMAIN store
    /\ DOMAIN store # {}

-----------------------------------------------------------------------------
(* C17  Conflict condition.  An upload_files run on an existing object       *)
(* reports a checksum conflict (returns False) if and only if the recorded   *)
(* digest and the digest of the file are both non-empty and differ; when one *)
(* of them is empty or absent the run is not rejected.                       *)

C17_ConflictCondition ==
    [][ ( /\ RunEnds
          /\ last'.fn = "upload_files"
          /\ last'.file # Missing
          /\ last'.path \in DOMAIN store ) =>
          ( last'.result = "False" <=>
              /\ Digest(store, last'.path) # <<>>
              /\ read_sha1(last'.file) # <<>>
              /\ read_sha1(last'.file) # Digest(store, last'.path) ) ]_vars

-----------------------------------------------------------------------------
(* C18  No product on an existing object.  An upload_files run with product  *)
(* None on a key whose object has the digest of the file returns without an  *)
(* error, leaves the owner list as it is, and the loop reaches every later   *)
(* item of the batch.                                                        *)

C18_NullProductUpload ==
    [][ ( /\ RunEnds
          /\ last'.fn = "upload_files"
          /\ last'.product = None
          /\ last'.file # Missing
          /\ last'.path \in DOMAIN store
          /\ Digest(store, last'.path) = read_sha1(last'.file) ) =>
          /\ last'.raised = "no"
          /\ last'.result = "True"
          /\ last'.skipped = 0
          /\ last'.path \in DOMAIN store'
          /\ Owners(store', last'.path) = Owners(store, last'.path) ]_vars

-----------------------------------------------------------------------------
(* C19  Checksum matches body.  In every state reached by the interleaved    *)
(* probes and writes of upload_files, upload_metadatas and delete_files runs *)
(* every object that has a recorded checksum has a body whose digest is that *)
(* checksum.                                                                 *)

C19_ChecksumMatchesBody ==
    \A k \in DOMAIN store :
        CHECKSUM_META_KEY \in DOMAIN store[k].meta =>
            read_sha1(store[k].body) = Digest(store, k)

-----------------------------------------------------------------------------
(* C20  Upload versus release on one key.  An object is owned by [P1]; an    *)
(* upload_files run with product P2 and a file of the recorded digest, and a *)
(* delete_files run with product P1, work on its key, their probes and       *)
(* writes interleaved in any way.  When the second of the two returns, it    *)
(* has raised nothing, the object is there and its owner list is [P2].       *)

\* caller c is about to end the second run of such a pair on its key: the first
\* run is the run that ended last
SecondOfPair(c, P1, P2) ==
    /\ item[c].pc = "probed"
    /\ P1 # P2
    /\ last.path = item[c].path
    /\ last.existed
    /\ last.found = <<P1>>
    /\ last.raised = "no"
    /\ \/ /\ call[c].fn = "upload_files"
          /\ call[c].product = P2
          /\ item[c].existed =>
                /\ ProdsOf(item[c].metadata) = <<P1>>
                /\ CHECKSUM_META_KEY \in DOMAIN item[c].metadata
                /\ item[c].metadata[CHECKSUM_META_KEY] = read_sha1(item[c].file)
          /\ last.fn = "delete_files"
          /\ last.product = P1
       \/ /\ call[c].fn = "delete_files"
          /\ call[c].product = P1
          /\ item[c].existed
          /\ ProdsOf(item[c].metadata) \in {<<P1>>, <<P1, P2>>}
          /\ last.fn = "upload_files"
          /\ last.product = P2
          /\ last.result = "True"

C20_UploadVersusRelease ==
    [][ \A c \in Callers : \A P1, P2 \in Products :
          (SecondOfPair(c, P1, P2) /\ item'[c].pc = "none") =>
              /\ last'.raised = "no"
              /\ item[c].path \in DOMAIN store'
              /\ Owners(store', item[c].path) = <<P2>> ]_vars

====
